---- MODULE Spec2Model ----
(***************************************************************************)
(* Model of app.py: a Flask service that loads the text of one PDF into    *)
(* the module global PDF_TEXT and answers POST /api/ask by sending a       *)
(* persona prompt (PDF_TEXT + question) to the Together chat-completions   *)
(* API.                                                                    *)
(*                                                                         *)
(* Text is a sequence of tokens.  The marker "Error:" that ask_question    *)
(* searches for is the two-token sequence <<"Error", ":">>, so that the    *)
(* substring test is a real search and the marker can arise inside a page  *)
(* or across the seam of two pages joined without a separator.             *)
(* The request body is assumed to be a JSON object (request.json is a      *)
(* dict); its 'question' key may be absent.                                *)
(***************************************************************************)
EXTENDS Integers, Sequences, FiniteSets, TLC

VARIABLES phase, PDF_TEXT, API_TOKEN, loads, loadResult, req

vars == <<phase, PDF_TEXT, API_TOKEN, loads, loadResult, req>>

(* ------------------------------ bounds --------------------------------- *)
\* number of pages of the PDF at most
MaxPages == 2
\* number of tokens of a question at most
MaxQLen == 1

Requests == {"r1", "r2"}

(* --------------------------- text helpers ------------------------------ *)
\* Python: sub in s
Contains(sub, s) ==
    \E i \in 0..(Len(s) - Len(sub)) : SubSeq(s, i + 1, i + Len(sub)) = sub

\* number of (possibly overlapping) occurrences of sub in s
Occurrences(sub, s) ==
    Cardinality({i \in 0..(Len(s) - Len(sub)) : SubSeq(s, i + 1, i + Len(sub)) = sub})

Whitespace == {" ", "\n"}

RECURSIVE LStrip(_)
LStrip(s) ==
    IF s # <<>> /\ Head(s) \in Whitespace THEN LStrip(Tail(s)) ELSE s

RECURSIVE RStrip(_)
RStrip(s) ==
    IF s # <<>> /\ s[Len(s)] \in Whitespace THEN RStrip(SubSeq(s, 1, Len(s) - 1)) ELSE s

StripLeftOnly(s) == LStrip(s)

\* Python: s.strip()
Strip(s) == RStrip(LStrip(s))

\* Python: "".join(parts)
RECURSIVE Join(_)
Join(parts) ==
    IF parts = <<>> THEN <<>> ELSE Head(parts) \o Join(Tail(parts))

SeqsUpTo(S, n) == UNION {[1..k -> S] : k \in 0..n}

(* ------------------------- startup: the document ----------------------- *)
ErrorMarker == <<"Error", ":">>

NotFoundSentinel ==
    ErrorMarker \o <<" ", "Document not found.", " ",
                     "Please ensure the PDF file exists in the 'data' directory.">>

FailedSentinel(cause) ==
    ErrorMarker \o <<" ", "Failed to process the PDF document.", " ">> \o cause

\* text of one page, as page.get_text() returns it
PageTexts == {<<"a">>, <<"Error">>, <<":">>}

\* what fitz.open can raise on a file that exists
ExtractCauses == {<<"cannot open broken document">>}

\* the file system at startup
FileStates ==
    {[exists |-> FALSE, corrupt |-> FALSE, cause |-> <<>>, pages |-> <<>>]}
    \cup {[exists |-> TRUE, corrupt |-> TRUE, cause |-> c, pages |-> <<>>] : c \in ExtractCauses}
    \cup {[exists |-> TRUE, corrupt |-> FALSE, cause |-> <<>>, pages |-> p] :
             p \in SeqsUpTo(PageTexts, MaxPages)}

\* the value extract_pdf_text assigns to PDF_TEXT
extract_pdf_text(fs) ==
    IF ~fs.exists THEN NotFoundSentinel
    ELSE IF fs.corrupt THEN FailedSentinel(fs.cause)
    ELSE Join(fs.pages)

LoadOutcome(fs) ==
    IF ~fs.exists THEN "missing" ELSE IF fs.corrupt THEN "failed" ELSE "ok"

(* --------------------------- the handler ------------------------------- *)
NoToken == "None"

Tokens == {NoToken, "tok"}

\* request.json: the 'question' key may be absent (data.get returns None)
Bodies ==
    {[hasQuestion |-> FALSE, question |-> <<>>]}
    \cup {[hasQuestion |-> TRUE, question |-> q] : q \in SeqsUpTo({" ", "a"}, MaxQLen)}

NeverInError(text) == FALSE

\* line 72: "Error:" in PDF_TEXT
DocumentInError(text) == Contains(ErrorMarker, text)

\* line 79: not question
QuestionFalsy(body) == ~body.hasQuestion \/ body.question = <<>>

PersonaInstr ==
    <<"You are Rupini Raman.", " ", "Your personality is professional and helpful.", " ",
      "Answer the following question based *only* on the information contained in your resume text provided below.",
      " ", "You must speak in the first person (e.g., 'I worked at...', 'My skills include...').", " ">>

FallbackInstr ==
    <<"If the answer is not in your resume, politely state that the information is not available in your resume, for example:",
      " ", "'That information is not something I've included in my resume.'">>

DocLabel == <<"--- MY RESUME TEXT ---", "\n">>

QuestionLabel == <<"--- QUESTION ---", "\n">>

BuildPromptSwapped(documentText, question) ==
    PersonaInstr \o FallbackInstr \o <<"\n", "\n">>
    \o DocLabel \o question \o <<"\n", "\n">>
    \o QuestionLabel \o documentText

\* lines 84-94
BuildPrompt(documentText, question) ==
    PersonaInstr \o FallbackInstr \o <<"\n", "\n">>
    \o DocLabel \o documentText \o <<"\n", "\n">>
    \o QuestionLabel \o question

ServiceErrorPrefix == <<"An error occurred while contacting the AI service:", " ">>

NoQuestionMsg == <<"No question provided.">>

AuthMissingText == <<"The api_key client option must be set">>
IndexErrorText == <<"list index out of range">>
AttributeErrorText == <<"'NoneType' object has no attribute 'strip'">>

IdleRequest ==
    [pc |-> "Idle", hasQuestion |-> FALSE, question |-> <<>>, prompt |-> <<>>,
     calls |-> 0, branch |-> "none", status |-> 0, key |-> "none", body |-> <<>>,
     upstream |-> [raises |-> FALSE, cause |-> <<>>, choices |-> <<>>]]

\* line 73
DocumentErrorResponse(body, text) ==
    [IdleRequest EXCEPT !.pc = "Responded", !.hasQuestion = body.hasQuestion,
        !.question = body.question, !.branch = "document",
        !.status = 500, !.key = "answer", !.body = text]

\* line 80
ValidationResponse(body) ==
    [IdleRequest EXCEPT !.pc = "Responded", !.hasQuestion = body.hasQuestion,
        !.question = body.question, !.branch = "validation",
        !.status = 400, !.key = "error", !.body = NoQuestionMsg]

ExceptResponseNoCause(r, cause) ==
    [r EXCEPT !.pc = "Responded", !.branch = "completion",
        !.status = 500, !.key = "answer", !.body = ServiceErrorPrefix]

ExceptResponseRetry(r, cause) ==
    [r EXCEPT !.pc = "Responded", !.branch = "completion", !.calls = r.calls + 1,
        !.status = 500, !.key = "answer", !.body = ServiceErrorPrefix \o cause]

\* lines 111-113: except Exception as e
ExceptResponse(r, cause) ==
    [r EXCEPT !.pc = "Responded", !.branch = "completion",
        !.status = 500, !.key = "answer", !.body = ServiceErrorPrefix \o cause]

\* lines 108-109
SuccessResponse(r, content) ==
    [r EXCEPT !.pc = "Responded", !.branch = "completion",
        !.status = 200, !.key = "answer", !.body = Strip(content)]

(* --------------------------- the provider ------------------------------ *)
TransportCauses == {<<"Connection timed out">>, <<"503 Service Unavailable">>}

ProviderContents == {<<"Hello.">>, <<" ", "Hello.", "\n">>, <<"\n", "Hello.", " ", "Bye.">>}

Messages ==
    {[isNone |-> TRUE, text |-> <<>>]}
    \cup {[isNone |-> FALSE, text |-> t] : t \in ProviderContents}

ChoiceLists ==
    {<<>>} \cup {<<m>> : m \in Messages}
    \cup {<<[isNone |-> FALSE, text |-> <<"Hello.", " ">>], [isNone |-> FALSE, text |-> <<"Other.">>]>>}

\* what client.chat.completions.create can do: raise, or return a response
ProviderOutcomes ==
    {[raises |-> TRUE, cause |-> c, choices |-> <<>>] : c \in TransportCauses}
    \cup {[raises |-> FALSE, cause |-> <<>>, choices |-> ch] : ch \in ChoiceLists}

(* ------------------------------ actions -------------------------------- *)
\* module body, lines 9-32 and 162: the globals after import
Init ==
    /\ phase = "Imported"
    /\ PDF_TEXT = <<>>
    /\ API_TOKEN \in Tokens
    /\ loads = 0
    /\ loadResult = "none"
    /\ req = [r \in Requests |-> IdleRequest]

\* lines 153-159: python app.py
RunAsMain ==
    /\ phase = "Imported"
    /\ \E fs \in FileStates :
         /\ PDF_TEXT' = extract_pdf_text(fs)
         /\ loadResult' = LoadOutcome(fs)
    /\ loads' = loads + 1
    /\ phase' = "ServingMain"
    /\ UNCHANGED <<API_TOKEN, req>>

\* line 162: a WSGI/serverless host imports the module and serves handler = app
ServeViaHandler ==
    /\ phase = "Imported"
    /\ phase' = "ServingHandler"
    /\ UNCHANGED <<PDF_TEXT, API_TOKEN, loads, loadResult, req>>

Serving == phase \in {"ServingMain", "ServingHandler"}

\* lines 66-101: ask_question up to the blocking provider call.
\* Together(api_key=None) is library code: whether it raises is left open.
AskQuestion(r) ==
    /\ Serving
    /\ req[r].pc = "Idle"
    /\ \E body \in Bodies, ctorRaises \in BOOLEAN :
         LET started == [IdleRequest EXCEPT !.hasQuestion = body.hasQuestion,
                            !.question = body.question,
                            !.prompt = BuildPrompt(PDF_TEXT, body.question)]
         IN req' = [req EXCEPT ![r] =
              IF DocumentInError(PDF_TEXT) THEN DocumentErrorResponse(body, PDF_TEXT)
              ELSE IF QuestionFalsy(body) THEN ValidationResponse(body)
              ELSE IF API_TOKEN = NoToken /\ ctorRaises
                   THEN ExceptResponse(started, AuthMissingText)
              ELSE [started EXCEPT !.pc = "AwaitingCompletion", !.calls = 1]]
    /\ UNCHANGED <<phase, PDF_TEXT, API_TOKEN, loads, loadResult>>

\* lines 101-113: the provider call returns or raises
ProviderReturns(r) ==
    /\ req[r].pc = "AwaitingCompletion"
    /\ \E o \in ProviderOutcomes :
         LET cur == [req[r] EXCEPT !.upstream = o]
         IN req' = [req EXCEPT ![r] =
              IF o.raises THEN ExceptResponse(cur, o.cause)
              ELSE IF Len(o.choices) = 0 THEN ExceptResponse(cur, IndexErrorText)
              ELSE IF o.choices[1].isNone THEN ExceptResponse(cur, AttributeErrorText)
              ELSE SuccessResponse(cur, o.choices[1].text)]
    /\ UNCHANGED <<phase, PDF_TEXT, API_TOKEN, loads, loadResult>>

\* the response is sent and the request is over
Finish(r) ==
    /\ req[r].pc = "Responded"
    /\ req' = [req EXCEPT ![r] = IdleRequest]
    /\ UNCHANGED <<phase, PDF_TEXT, API_TOKEN, loads, loadResult>>

Next ==
    \/ RunAsMain
    \/ ServeViaHandler
    \/ \E r \in Requests : AskQuestion(r)
    \/ \E r \in Requests : ProviderReturns(r)
    \/ \E r \in Requests : Finish(r)

Spec == Init /\ [][Next]_vars

(* ------------------------- derived predicates -------------------------- *)
Handled(r) == req[r].pc # "Idle"

Responded(r) == req[r].pc = "Responded"

\* the question of request r is missing or empty
FalsyQuestion(r) == ~req[r].hasQuestion \/ req[r].question = <<>>

\* the question of request r is missing, empty or made of whitespace only
BlankQuestion(r) ==
    ~req[r].hasQuestion \/ \A i \in 1..Len(req[r].question) : req[r].question[i] \in Whitespace

Sentinels == {NotFoundSentinel} \cup {FailedSentinel(c) : c \in ExtractCauses}

\* the provider call raised, or its response has no usable first completion
CompletionFailed(o) ==
    o.raises \/ o.choices = <<>> \/ o.choices[1].isNone

FailureCause(o) ==
    IF o.raises THEN o.cause
    ELSE IF o.choices = <<>> THEN IndexErrorText ELSE AttributeErrorText

AllWhitespace(s) == \A i \in 1..Len(s) : s[i] \in Whitespace

\* b is c with its leading and trailing whitespace removed
IsTrimOf(b, c) ==
    /\ b = <<>> \/ (b[1] \notin Whitespace /\ b[Len(b)] \notin Whitespace)
    /\ \E i \in 0..Len(c) :
         /\ i + Len(b) <= Len(c)
         /\ AllWhitespace(SubSeq(c, 1, i))
         /\ SubSeq(c, i + 1, i + Len(b)) = b
         /\ AllWhitespace(SubSeq(c, i + Len(b) + 1, Len(c)))

(* ------------------------------- claims -------------------------------- *)

\* C1: while PDF_TEXT is not in an error state, every request whose question
\* is missing, empty or whitespace-only is answered 400
\* {"error": "No question provided."} and never calls the provider.
C1_BlankQuestionRejected ==
    \A r \in Requests :
        (Handled(r) /\ ~DocumentInError(PDF_TEXT) /\ BlankQuestion(r)) =>
            /\ Responded(r)
            /\ req[r].status = 400
            /\ req[r].key = "error"
            /\ req[r].body = NoQuestionMsg
            /\ req[r].calls = 0

\* C2: when the load failed, PDF_TEXT is an error sentinel, every request with
\* a non-empty question is answered 500 with the sentinel verbatim and without
\* any provider call, and no request step re-runs the load or changes PDF_TEXT.
C2_SentinelAnswer ==
    \A r \in Requests :
        (loadResult \in {"missing", "failed"} /\ Handled(r) /\ ~FalsyQuestion(r)) =>
            /\ PDF_TEXT \in Sentinels
            /\ Responded(r)
            /\ req[r].status = 500
            /\ req[r].key = "answer"
            /\ req[r].body = PDF_TEXT
            /\ req[r].calls = 0

\* C2: the sentinel answer holds in every state, and while serving no step
\* changes PDF_TEXT or runs the load again.
C2_SentinelReplayed ==
    /\ []C2_SentinelAnswer
    /\ [][Serving => (PDF_TEXT' = PDF_TEXT /\ loads' = loads /\ loadResult' = loadResult)]_vars

C2_Witness ==
    \E r \in Requests :
        /\ loadResult = "failed"
        /\ Responded(r)
        /\ ~FalsyQuestion(r)
        /\ req[r].status = 500
        /\ req[r].body = FailedSentinel(<<"cannot open broken document">>)

\* C3: validation comes before the document check: a request with a missing or
\* empty question is answered 400 in every state of PDF_TEXT, and the
\* document-error 500 is only given to a request that passed validation.
C3_ValidationFirst ==
    \A r \in Requests :
        Responded(r) =>
            /\ FalsyQuestion(r) => (req[r].status = 400 /\ req[r].branch = "validation")
            /\ req[r].branch = "document" => ~FalsyQuestion(r)

\* C4: whenever a request is being handled, the load has set PDF_TEXT exactly
\* once, on every path by which the service comes to serve.
C4_LoadedBeforeServing ==
    \A r \in Requests :
        Handled(r) => (loads = 1 /\ loadResult # "none")

\* C5: a failed provider call is answered 500 with an answer containing the
\* cause, every handled request ends in a response, the failing step changes
\* nothing but its own request, and a call that succeeds is answered 200.
C5_FailureAnswer ==
    \A r \in Requests :
        /\ Responded(r) => req[r].status \in {200, 400, 500}
        /\ (Responded(r) /\ req[r].calls = 1 /\ CompletionFailed(req[r].upstream)) =>
              /\ req[r].status = 500
              /\ req[r].key = "answer"
              /\ Contains(FailureCause(req[r].upstream), req[r].body)
        /\ (Responded(r) /\ req[r].calls = 1 /\ ~CompletionFailed(req[r].upstream)) =>
              req[r].status = 200

C5_FailureIsolated ==
    \A r \in Requests :
        (req[r].pc = "AwaitingCompletion" /\ req'[r].pc = "Responded" /\ req'[r].status = 500) =>
            /\ PDF_TEXT' = PDF_TEXT
            /\ API_TOKEN' = API_TOKEN
            /\ phase' = phase
            /\ \A s \in Requests \ {r} : req'[s] = req[s]

\* C5: the failure answer holds in every state, and the failing step leaves
\* the shared state and every other request unchanged.
C5_ProviderFailureContained ==
    /\ []C5_FailureAnswer
    /\ [][C5_FailureIsolated]_vars

C5_Witness ==
    \E r, s \in Requests :
        /\ Responded(r) /\ req[r].calls = 1 /\ req[r].upstream.raises
        /\ req[r].status = 500
        /\ Responded(s) /\ req[s].status = 200

\* C6: a request with a non-empty question, a document not in error and a
\* provider call that succeeds is answered 200 {"answer": a}, a being the text
\* of the first completion without its leading and trailing whitespace.
C6_SuccessAnswerTrimmed ==
    \A r \in Requests :
        (Responded(r) /\ req[r].calls = 1 /\ ~CompletionFailed(req[r].upstream)) =>
            /\ ~FalsyQuestion(r)
            /\ ~DocumentInError(PDF_TEXT)
            /\ req[r].status = 200
            /\ req[r].key = "answer"
            /\ IsTrimOf(req[r].body, req[r].upstream.choices[1].text)

C6_Witness ==
    \E r \in Requests :
        /\ Responded(r)
        /\ req[r].status = 200
        /\ req[r].upstream.choices[1].text = <<" ", "Hello.", "\n">>
        /\ req[r].body = <<"Hello.">>

PromptOf(r) == req[r].prompt

\* C8 as stated: the prompt contains the fallback instruction, PDF_TEXT and
\* the question each exactly once.
C8_EachExactlyOnce ==
    \A r \in Requests :
        req[r].pc = "AwaitingCompletion" =>
            /\ Occurrences(FallbackInstr, PromptOf(r)) = 1
            /\ Occurrences(PDF_TEXT, PromptOf(r)) = 1
            /\ Occurrences(req[r].question, PromptOf(r)) = 1

\* C8 amended: the prompt is, in this order, the persona instruction, the
\* fallback instruction, a blank line, the document label, PDF_TEXT unaltered,
\* a blank line, the question label and the question unaltered, and nothing
\* else; so each of the three occurs at least once.
C8_PromptLayout ==
    \A r \in Requests :
        req[r].pc = "AwaitingCompletion" =>
            LET p == PromptOf(r)
                d == PDF_TEXT
                q == req[r].question
                a == Len(PersonaInstr)
                b == a + Len(FallbackInstr) + 2
                c == b + Len(DocLabel) + Len(d) + 2
            IN /\ Len(p) = c + Len(QuestionLabel) + Len(q)
               /\ SubSeq(p, 1, a) = PersonaInstr
               /\ SubSeq(p, a + 1, b - 2) = FallbackInstr
               /\ SubSeq(p, b + 1, b + Len(DocLabel)) = DocLabel
               /\ SubSeq(p, b + Len(DocLabel) + 1, c - 2) = d
               /\ SubSeq(p, c + 1, c + Len(QuestionLabel)) = QuestionLabel
               /\ SubSeq(p, c + Len(QuestionLabel) + 1, Len(p)) = q
               /\ Occurrences(FallbackInstr, p) >= 1
               /\ Occurrences(d, p) >= 1
               /\ Occurrences(q, p) >= 1

C8_Witness ==
    \E r \in Requests :
        /\ req[r].pc = "AwaitingCompletion"
        /\ PDF_TEXT = <<"a">>
        /\ req[r].question = <<"a">>
        /\ Occurrences(req[r].question, PromptOf(r)) = 2

\* C9: after a successful extraction, whatever the text contains, a request
\* with a non-empty question is never given the document-error response.
C9_ErrorBranchOnlyOnFailedLoad ==
    \A r \in Requests :
        (loadResult = "ok" /\ Handled(r) /\ ~FalsyQuestion(r)) =>
            req[r].branch # "document"

\* C10: a request makes at most one provider call: exactly one once it reaches
\* the completion step with a credential, none when it is answered with the
\* validation error or the document error, and a failed call is not repeated.
C10_CallCount ==
    \A r \in Requests :
        /\ req[r].calls <= 1
        /\ req[r].pc = "AwaitingCompletion" => req[r].calls = 1
        /\ (Responded(r) /\ req[r].branch \in {"validation", "document"}) => req[r].calls = 0
        /\ (Responded(r) /\ req[r].branch = "completion" /\ API_TOKEN # NoToken) =>
              req[r].calls = 1

C10_NoRetry ==
    \A r \in Requests :
        req[r].pc = "AwaitingCompletion" =>
            \/ req'[r] = req[r]
            \/ req'[r].pc = "Responded" /\ req'[r].calls = req[r].calls

\* C10: the call counts hold in every state, and no step taken while awaiting
\* the provider adds a call.
C10_AtMostOneCall ==
    /\ []C10_CallCount
    /\ [][C10_NoRetry]_vars

C10_Witness ==
    \E r \in Requests :
        /\ Responded(r)
        /\ req[r].branch = "completion"
        /\ req[r].upstream.raises
        /\ req[r].status = 500
        /\ req[r].calls = 1
        /\ API_TOKEN # NoToken

====
